---- MODULE Spec2Model ----
(***************************************************************************)
(* A model of the gutters crate (src/src/lib.rs): six blocking primitives  *)
(* over a duplex byte stream ("gutter").                                   *)
(*                                                                         *)
(* A value of a fixed-size type T is modelled by its memory: a sequence of *)
(* size_of::<T>() bytes.  A gutter is one end of a duplex pipe; the bytes  *)
(* travelling towards an end are kept as the whole sequence ever written   *)
(* towards it (wire) and the end's read cursor (taken).  read_exact and    *)
(* write_all are the loops of std::io: one underlying read or write per    *)
(* step, each moving at least one byte, so that calls of the two ends      *)
(* interleave at the granularity of the underlying I/O.                    *)
(***************************************************************************)
EXTENDS Naturals, Sequences, FiniteSets

VARIABLES
    wire,    \* wire[e]: every byte ever written towards end e, in order
    orig,    \* orig[e][i]: which primitive wrote wire[e][i] (history)
    taken,   \* taken[e]: how many bytes of wire[e] end e has consumed
    shut,    \* shut[e]: the halves ("rd", "wr") of its stream end e has shut
    st,      \* st[e]: the call in progress (or last finished) at end e
    calls,   \* calls[e]: how many calls end e has started
    prog,    \* prog[e]: the caller's program: the i-th call is one of prog[e][i]
    args,    \* args[e]: the buffers the caller of end e passes
    caps,    \* caps[e]: the traits ("Read", "Write") the gutter type of e implements
    script,  \* script[e]: the buffer of each call, where the caller fixes them
    fate     \* fate[e]: the failure the transport of gutter e has in store

vars == <<wire, orig, taken, shut, st, calls, prog, args, caps, script, fate>>

(***************************************************************************)
(* Bounds and constants                                                    *)
(***************************************************************************)
MaxSize == 2        \* largest size_of::<T>() tried
MaxLen == 3         \* longest initial content of an incoming stream
MaxPre == 1         \* longest initial content of an outgoing stream
MaxRounds == 2      \* calls made by a free peer
ByteMax == 255      \* u8
HailByte == 10      \* b"\n"

Byte == 0..ByteMax
Sample == {0, HailByte}      \* the byte values used to build inputs

End == {"A", "B", "C", "D"}  \* two duplex pipes: A--B and C--D
Peer(e) == CASE e = "A" -> "B" [] e = "B" -> "A" [] e = "C" -> "D" [] e = "D" -> "C"

Ops == {"pick_up", "throw", "hail", "wait", "pick_up_and_hail", "throw_and_wait"}
\* The kinds of std::io::Error a call can return: the kinds named here and
\* "Other" for every other kind but Interrupted, which read_exact and
\* write_all do not return.
Errors == {"UnexpectedEof", "WriteZero", "BrokenPipe", "ConnectionReset",
           "TimedOut", "WouldBlock", "Other"}

Min(a, b) == IF a <= b THEN a ELSE b

\* All sequences over S of length at most n.
BSeq(S, n) == UNION {[1..k -> S] : k \in 0..n}

\* All values of all types of size at most MaxSize, as memory.
Values == BSeq(Sample, MaxSize)

(***************************************************************************)
(* Raw byte views                                                          *)
(***************************************************************************)
size_of(v) == Len(v)

\* A view that yields the bytes in the opposite order.
as_u8_slice_Swapped(v) == [i \in 1..size_of(v) |-> v[size_of(v) + 1 - i]]

\* The immutable view: size_of::<T>() bytes aliasing the value's memory.
as_u8_slice(v) == [i \in 1..size_of(v) |-> v[i]]

\* A view that is not advanced past the bytes already read.
as_u8_slice_mut_Unadvanced(v, pos, bytes) ==
    [i \in 1..size_of(v) |-> IF i <= Len(bytes) THEN bytes[i] ELSE v[i]]

\* The mutable view: writing bytes at offset pos through it changes the value.
as_u8_slice_mut(v, pos, bytes) ==
    [i \in 1..size_of(v) |->
        IF i > pos /\ i <= pos + Len(bytes) THEN bytes[i - pos] ELSE v[i]]

(***************************************************************************)
(* The state of a call                                                     *)
(***************************************************************************)
Idle == [op |-> "none", pc |-> "ready", buf |-> <<>>, tmp |-> <<>>, pos |-> 0,
         first |-> "none", res |-> "none", buf0 |-> <<>>, rmark |-> 0,
         in0 |-> <<>>, out0 |-> <<>>, shut0 |-> {}]

\* The bytes end e has not consumed yet.
Incoming(e) == SubSeq(wire[e], taken[e] + 1, Len(wire[e]))

\* The slice the primitive in progress transfers: the caller's buffer for
\* pick_up and throw, the one-byte temporary for hail and wait.
Slice(c) == IF c.pc \in {"pick_up", "throw"} THEN c.buf ELSE c.tmp

\* A pick_up_and_hail that begins with its hail.
FirstStep_HailFirst(op) ==
    CASE op = "pick_up" -> "pick_up"
      [] op \in {"throw", "throw_and_wait"} -> "throw"
      [] op \in {"hail", "pick_up_and_hail"} -> "hail"
      [] op = "wait" -> "wait"

\* A throw that calls read_exact on its buffer.
FirstStep_ThrowReads(op) ==
    CASE op \in {"pick_up", "pick_up_and_hail", "throw"} -> "pick_up"
      [] op = "throw_and_wait" -> "throw"
      [] op = "hail" -> "hail"
      [] op = "wait" -> "wait"

\* The first primitive of each operation.
FirstStep(op) ==
    CASE op \in {"pick_up", "pick_up_and_hail"} -> "pick_up"
      [] op \in {"throw", "throw_and_wait"} -> "throw"
      [] op = "hail" -> "hail"
      [] op = "wait" -> "wait"

\* A hail that sends "\r\n".
Temp_CrLf(pc) == CASE pc = "hail" -> <<13, HailByte>> [] pc = "wait" -> <<0>> [] OTHER -> <<>>

\* A wait that reads into an empty slice.
Temp_EmptyWait(pc) == CASE pc = "hail" -> <<HailByte>> [] OTHER -> <<>>

\* The temporary a primitive starts with: b"\n" for hail, [0u8] for wait.
Temp(pc) == CASE pc = "hail" -> <<HailByte>> [] pc = "wait" -> <<0>> [] OTHER -> <<>>

\* The call returns r to its caller; the temporary is dropped.
Ret(c, r) ==
    [c EXCEPT !.pc = "done", !.res = r, !.tmp = <<>>,
              !.first = IF c.first = "none" THEN r ELSE c.first]

\* The first primitive returned r and the call goes on with the primitive pc.
Then(c, pc, r) == [c EXCEPT !.pc = pc, !.tmp = Temp(pc), !.pos = 0, !.first = r]

\* A composite without the `?`: hail whatever pick_up returned.
pick_up_and_hail_NoShortCircuit(c, r) ==
    IF c.pc = "pick_up" THEN Then(c, "hail", r) ELSE Ret(c, r)

\* A pick_up_and_hail that returns after its pick_up.
pick_up_and_hail_NoHail(c, r) == Ret(c, r)

\* A pick_up_and_hail that reports success once the payload is read.
pick_up_and_hail_HailIgnored(c, r) ==
    IF c.pc = "pick_up"
    THEN IF r = "Ok" THEN Then(c, "hail", r) ELSE Ret(c, r)
    ELSE Ret(c, "Ok")

\* pick_up(gutter, buffer)?; hail(gutter)
pick_up_and_hail(c, r) ==
    IF c.pc = "pick_up"
    THEN IF r = "Ok" THEN Then(c, "hail", r) ELSE Ret(c, r)
    ELSE Ret(c, r)

\* A throw_and_wait that returns after its throw.
throw_and_wait_NoWait(c, r) == Ret(c, r)

\* throw(gutter, buffer)?; wait(gutter)
throw_and_wait(c, r) ==
    IF c.pc = "throw"
    THEN IF r = "Ok" THEN Then(c, "wait", r) ELSE Ret(c, r)
    ELSE Ret(c, r)

\* The primitive in progress returned r.
Return(c, r) ==
    CASE c.op = "pick_up_and_hail" -> pick_up_and_hail(c, r)
      [] c.op = "throw_and_wait" -> throw_and_wait(c, r)
      [] OTHER -> Ret(c, r)

\* The trait bound on the gutter type G of each function: G: Read + Write,
\* but G: Write for hail and G: Read for wait.
Bound(op) ==
    CASE op = "hail" -> {"Write"}
      [] op = "wait" -> {"Read"}
      [] OTHER -> {"Read", "Write"}

Reading(e) == st[e].pc \in {"pick_up", "wait"}
Writing(e) == st[e].pc \in {"throw", "hail"}
Remaining(e) == Len(Slice(st[e])) - st[e].pos
Finished(e) == st[e].pc \in {"ready", "done"}

\* What the call of end e has consumed and written so far (history).
Consumed(e) == taken[e] - st[e].rmark
Written(e) == SubSeq(wire[Peer(e)], Len(st[e].out0) + 1, Len(wire[Peer(e)]))
Returned(e, op) == st[e].op = op /\ st[e].pc = "done"

\* The bytes that were in the stream when the call of end e began and that
\* it has not consumed (what the peer wrote since comes after them).
Left(e) == SubSeq(wire[e], taken[e] + 1, st[e].rmark + Len(st[e].in0))

(***************************************************************************)
(* Actions                                                                 *)
(***************************************************************************)
\* The caller of end e starts its next call: op with buffer v (hail and wait
\* take no buffer and leave the caller's as it is).  The call compiles only
\* if the gutter type meets the function's trait bound.  A program stops at
\* its first error (the `?` of the crate's usage example).
Call(e, op, v) ==
    /\ Finished(e)
    /\ Bound(op) \subseteq caps[e]
    /\ st[e].res \in {"none", "Ok"}
    /\ calls[e] < Len(prog[e])
    /\ op \in prog[e][calls[e] + 1]
    /\ v \in args[e]
    /\ st' = [st EXCEPT ![e] =
                [op |-> op, pc |-> FirstStep(op),
                 buf |-> IF op \in {"hail", "wait"} THEN st[e].buf ELSE v,
                 tmp |-> Temp(FirstStep(op)), pos |-> 0,
                 first |-> "none", res |-> "none",
                 buf0 |-> IF op \in {"hail", "wait"} THEN st[e].buf ELSE v,
                 rmark |-> taken[e], in0 |-> Incoming(e), out0 |-> wire[Peer(e)],
                 shut0 |-> shut[Peer(e)]]]
    /\ calls' = [calls EXCEPT ![e] = @ + 1]
    /\ UNCHANGED <<wire, orig, taken, shut, prog, args, caps, script, fate>>

\* The bytes an underlying read of k bytes stores at offset pos of the slice.
ReadInto(c, bytes) ==
    IF c.pc = "pick_up"
    THEN [c EXCEPT !.buf = as_u8_slice_mut(c.buf, c.pos, bytes), !.pos = @ + Len(bytes)]
    ELSE [c EXCEPT !.tmp = as_u8_slice_mut(c.tmp, c.pos, bytes), !.pos = @ + Len(bytes)]

\* A read that leaves the bytes it returns in the stream.
ReadStep_Peek(e, k) ==
    /\ Reading(e)
    /\ k >= 1
    /\ k <= Min(Remaining(e), Len(Incoming(e)))
    /\ st' = [st EXCEPT ![e] = ReadInto(@, SubSeq(wire[e], taken[e] + 1, taken[e] + k))]
    /\ UNCHANGED <<wire, orig, taken, shut, calls, prog, args, caps, script, fate>>

\* read_exact: one underlying read returns k >= 1 bytes.
ReadStep(e, k) ==
    /\ Reading(e)
    /\ k >= 1
    /\ k <= Min(Remaining(e), Len(Incoming(e)))
    /\ st' = [st EXCEPT ![e] = ReadInto(@, SubSeq(wire[e], taken[e] + 1, taken[e] + k))]
    /\ taken' = [taken EXCEPT ![e] = @ + k]
    /\ UNCHANGED <<wire, orig, shut, calls, prog, args, caps, script, fate>>

\* A single read in place of read_exact: end-of-stream is a short success.
ReadEof_Short(e) ==
    /\ Reading(e)
    /\ Remaining(e) > 0
    /\ Incoming(e) = <<>>
    /\ "wr" \in shut[Peer(e)]
    /\ st' = [st EXCEPT ![e] = Return(@, "Ok")]
    /\ UNCHANGED <<wire, orig, taken, shut, calls, prog, args, caps, script, fate>>

\* read_exact: the underlying read returns 0 (the peer has shut its write
\* half and nothing is left): ErrorKind::UnexpectedEof.
ReadEof(e) ==
    /\ Reading(e)
    /\ Remaining(e) > 0
    /\ Incoming(e) = <<>>
    /\ "wr" \in shut[Peer(e)]
    /\ st' = [st EXCEPT ![e] = Return(@, "UnexpectedEof")]
    /\ UNCHANGED <<wire, orig, taken, shut, calls, prog, args, caps, script, fate>>

\* A read error that is swallowed.
ReadFault_Swallowed(e, kind) ==
    /\ Reading(e)
    /\ Remaining(e) > 0
    /\ kind \in Errors
    /\ st' = [st EXCEPT ![e] = Return(@, "Ok")]
    /\ UNCHANGED <<wire, orig, taken, shut, calls, prog, args, caps, script, fate>>

\* read_exact: the underlying read fails with an error of a kind other than
\* Interrupted; the error is returned as it is.
ReadFault(e, kind) ==
    /\ Reading(e)
    /\ Remaining(e) > 0
    /\ kind \in Errors
    /\ st' = [st EXCEPT ![e] = Return(@, kind)]
    /\ UNCHANGED <<wire, orig, taken, shut, calls, prog, args, caps, script, fate>>

\* read_exact: the underlying read fails with ErrorKind::Interrupted; the
\* loop goes on and calls read again with the same slice.
ReadInterrupted(e) ==
    /\ Reading(e)
    /\ Remaining(e) > 0
    /\ UNCHANGED vars

\* A wait that accepts only the byte hail sends.
ReadDone_Checked(e) ==
    /\ Reading(e)
    /\ Remaining(e) = 0
    /\ st' = [st EXCEPT ![e] =
                IF @.pc = "wait" /\ @.tmp # <<HailByte>>
                THEN Return(@, "InvalidData") ELSE Return(@, "Ok")]
    /\ UNCHANGED <<wire, orig, taken, shut, calls, prog, args, caps, script, fate>>

\* read_exact: the slice is full (at once when it is empty): Ok(()).
ReadDone(e) ==
    /\ Reading(e)
    /\ Remaining(e) = 0
    /\ st' = [st EXCEPT ![e] = Return(@, "Ok")]
    /\ UNCHANGED <<wire, orig, taken, shut, calls, prog, args, caps, script, fate>>

\* A write loop that offers the slice from its start again after a partial
\* write.
WriteStep_Restart(e, k) ==
    /\ Writing(e)
    /\ k >= 1
    /\ k <= Remaining(e)
    /\ LET c == st[e]
           bytes == SubSeq(as_u8_slice(Slice(c)), 1, k)
       IN /\ wire' = [wire EXCEPT ![Peer(e)] = @ \o bytes]
          /\ orig' = [orig EXCEPT ![Peer(e)] = @ \o [i \in 1..k |-> c.pc]]
          /\ st' = [st EXCEPT ![e].pos = @ + k]
    /\ UNCHANGED <<taken, shut, calls, prog, args, caps, script, fate>>

\* write_all: one underlying write accepts k >= 1 bytes.  A transport may
\* accept them although the peer has shut its read half or is gone (a TCP
\* socket does); the peer then never reads them.
WriteStep(e, k) ==
    /\ Writing(e)
    /\ k >= 1
    /\ k <= Remaining(e)
    /\ LET c == st[e]
           bytes == SubSeq(as_u8_slice(Slice(c)), c.pos + 1, c.pos + k)
       IN /\ wire' = [wire EXCEPT ![Peer(e)] = @ \o bytes]
          /\ orig' = [orig EXCEPT ![Peer(e)] = @ \o [i \in 1..k |-> c.pc]]
          /\ st' = [st EXCEPT ![e].pos = @ + k]
    /\ UNCHANGED <<taken, shut, calls, prog, args, caps, script, fate>>

\* A write to a peer that is gone which is dropped and reported as done.
WriteBroken_Dropped(e) ==
    /\ Writing(e)
    /\ Remaining(e) > 0
    /\ "rd" \in shut[Peer(e)]
    /\ st' = [st EXCEPT ![e] = Return(@, "Ok")]
    /\ UNCHANGED <<wire, orig, taken, shut, calls, prog, args, caps, script, fate>>

\* write_all: the underlying write fails because the peer has shut its
\* read half: ErrorKind::BrokenPipe, returned as it is.
WriteBroken(e) ==
    /\ Writing(e)
    /\ Remaining(e) > 0
    /\ "rd" \in shut[Peer(e)]
    /\ st' = [st EXCEPT ![e] = Return(@, "BrokenPipe")]
    /\ UNCHANGED <<wire, orig, taken, shut, calls, prog, args, caps, script, fate>>

\* write_all: the underlying write returns 0: ErrorKind::WriteZero.
WriteFault(e) ==
    /\ Writing(e)
    /\ Remaining(e) > 0
    /\ st' = [st EXCEPT ![e] = Return(@, "WriteZero")]
    /\ UNCHANGED <<wire, orig, taken, shut, calls, prog, args, caps, script, fate>>

\* write_all: the underlying write fails with an error of a kind other than
\* Interrupted; the error is returned as it is.
WriteError(e, kind) ==
    /\ Writing(e)
    /\ Remaining(e) > 0
    /\ kind \in Errors
    /\ st' = [st EXCEPT ![e] = Return(@, kind)]
    /\ UNCHANGED <<wire, orig, taken, shut, calls, prog, args, caps, script, fate>>

\* write_all: the underlying write fails with ErrorKind::Interrupted; the
\* loop goes on and calls write again with the same slice.
WriteInterrupted(e) ==
    /\ Writing(e)
    /\ Remaining(e) > 0
    /\ UNCHANGED vars

\* write_all: nothing is left to write (at once for an empty slice): Ok(()).
WriteDone(e) ==
    /\ Writing(e)
    /\ Remaining(e) = 0
    /\ st' = [st EXCEPT ![e] = Return(@, "Ok")]
    /\ UNCHANGED <<wire, orig, taken, shut, calls, prog, args, caps, script, fate>>

\* An end that makes no further call shuts halves of its stream (both when
\* the stream is dropped).
Shutdown(e, how) ==
    /\ Finished(e)
    /\ calls[e] = Len(prog[e]) \/ st[e].res \in Errors
    /\ how # {}
    /\ how \cap shut[e] = {}
    /\ shut' = [shut EXCEPT ![e] = @ \cup how]
    /\ UNCHANGED <<wire, orig, taken, st, calls, prog, args, caps, script, fate>>

Halves == SUBSET {"rd", "wr"}

(***************************************************************************)
(* Spec: one end, A, makes one call of any operation on a stream that      *)
(* holds any bytes; its peer B is the environment, which may shut its      *)
(* halves at any time, and the transport may fail any read or write.       *)
(***************************************************************************)
NoProg == [e \in End |-> <<>>]
NoArgs == [e \in End |-> {}]
NoScript == [e \in End |-> <<>>]
AllCaps == [e \in End |-> {"Read", "Write"}]
\* A transport of which nothing is fixed in advance.
NoFate == [e \in End |-> [dir |-> "none", pos |-> 0, kind |-> "none"]]

\* What was written on a stream before the call: up to MaxPre bytes.
Before == {[i \in 1..k |-> 0] : k \in 0..MaxPre}

Init ==
    /\ \E in \in BSeq(Sample, MaxLen), out \in Before :
          /\ wire = [e \in End |-> CASE e = "A" -> in [] e = "B" -> out [] OTHER -> <<>>]
          /\ orig = [e \in End |-> CASE e = "A" -> [i \in 1..Len(in) |-> "env"]
                                     [] e = "B" -> [i \in 1..Len(out) |-> "env"]
                                     [] OTHER -> <<>>]
    /\ taken = [e \in End |-> 0]
    /\ shut \in {[e \in End |-> IF e = "B" THEN h ELSE {}] : h \in Halves}
    /\ st = [e \in End |-> Idle]
    /\ calls = [e \in End |-> 0]
    /\ caps = AllCaps
    /\ script = NoScript
    /\ fate = NoFate
    /\ prog = [NoProg EXCEPT !["A"] = <<Ops>>]
    /\ args = [NoArgs EXCEPT !["A"] = Values]

Next ==
    \/ \E op \in Ops, v \in Values : Call("A", op, v)
    \/ \E k \in 1..(MaxSize + 1) : ReadStep("A", k)
    \/ ReadEof("A")
    \/ \E kind \in Errors : ReadFault("A", kind)
    \/ ReadInterrupted("A")
    \/ ReadDone("A")
    \/ \E k \in 1..(MaxSize + 1) : WriteStep("A", k)
    \/ WriteBroken("A")
    \/ WriteFault("A")
    \/ \E kind \in Errors : WriteError("A", kind)
    \/ WriteInterrupted("A")
    \/ WriteDone("A")
    \/ \E how \in Halves : Shutdown("B", how)

Spec == Init /\ [][Next]_vars

TypeOK ==
    /\ \A e \in End : /\ wire[e] \in Seq(Byte)
                      /\ Len(orig[e]) = Len(wire[e])
                      /\ taken[e] <= Len(wire[e])
                      /\ shut[e] \in Halves
                      /\ st[e].pc \in {"ready", "done", "pick_up", "throw", "hail", "wait"}
                      /\ st[e].res \in {"none", "Ok"} \cup Errors

(***************************************************************************)
(* WaitSpec: one end calls wait on a stream whose next byte is any of the  *)
(* 256 byte values, or that holds nothing.                                 *)
(***************************************************************************)
WaitInputs ==
    {<<>>} \cup {<<b>> : b \in Byte} \cup {<<b, c>> : b \in Byte, c \in Sample}

WaitInit ==
    /\ \E in \in WaitInputs :
          /\ wire = [e \in End |-> IF e = "A" THEN in ELSE <<>>]
          /\ orig = [e \in End |-> IF e = "A" THEN [i \in 1..Len(in) |-> "env"] ELSE <<>>]
    /\ taken = [e \in End |-> 0]
    /\ shut \in {[e \in End |-> IF e = "B" THEN h ELSE {}] : h \in Halves}
    /\ st = [e \in End |-> Idle]
    /\ calls = [e \in End |-> 0]
    /\ caps = AllCaps
    /\ script = NoScript
    /\ fate = NoFate
    /\ prog = [NoProg EXCEPT !["A"] = <<{"wait"}>>]
    /\ args = [NoArgs EXCEPT !["A"] = {<<>>}]

WaitNext ==
    \/ Call("A", "wait", <<>>)
    \/ ReadStep("A", 1)
    \/ ReadEof("A")
    \/ \E kind \in Errors : ReadFault("A", kind)
    \/ ReadInterrupted("A")
    \/ ReadDone("A")
    \/ \E how \in Halves : Shutdown("B", how)

WaitSpec == WaitInit /\ [][WaitNext]_vars

(***************************************************************************)
(* Pair: a reliable duplex pipe that starts empty; A makes one call and B  *)
(* the matching call for a type of the same size: throw / pick_up, or      *)
(* throw_and_wait / pick_up_and_hail.  Each end's thread keeps running.    *)
(***************************************************************************)
Empty == [e \in End |-> <<>>]

PairInit ==
    /\ wire = Empty
    /\ orig = Empty
    /\ taken = [e \in End |-> 0]
    /\ shut = [e \in End |-> {}]
    /\ st = [e \in End |-> Idle]
    /\ calls = [e \in End |-> 0]
    /\ caps = AllCaps
    /\ script = NoScript
    /\ fate = NoFate
    /\ \E pair \in {<<"throw", "pick_up">>, <<"throw_and_wait", "pick_up_and_hail">>} :
          prog = [NoProg EXCEPT !["A"] = <<{pair[1]}>>, !["B"] = <<{pair[2]}>>]
    /\ \E v \in Values, x \in Values :
          /\ size_of(v) = size_of(x)
          /\ args = [NoArgs EXCEPT !["A"] = {v}, !["B"] = {x}]

\* The steps of end e on a reliable pipe: no read or write fails, but for
\* interruptions.
Run(e) ==
    \/ \E op \in Ops, v \in Values : Call(e, op, v)
    \/ \E k \in 1..(MaxSize + 1) : ReadStep(e, k)
    \/ ReadInterrupted(e)
    \/ ReadDone(e)
    \/ \E k \in 1..(MaxSize + 1) : WriteStep(e, k)
    \/ WriteInterrupted(e)
    \/ WriteDone(e)

PairNext == Run("A") \/ Run("B")

PairSpec == PairInit /\ [][PairNext]_vars /\ WF_vars(Run("A")) /\ WF_vars(Run("B"))

(***************************************************************************)
(* Twin: two pipes in the same state.  On the first, A calls a composite;  *)
(* on the second, C calls the two primitives one after the other, the      *)
(* second only if the first succeeded.  The peers have shut any of their   *)
(* halves, and the two transports behave alike: they fail the same read or *)
(* write, at the same offset of the stream, with the same error.           *)
(***************************************************************************)
\* The failures a transport may have in store: none, a read that fails once
\* pos bytes have been read, or a write that fails (or accepts nothing, for
\* WriteZero) once pos bytes have been written.
Fates ==
    {[dir |-> "none", pos |-> 0, kind |-> "none"]}
        \cup [dir : {"rd"}, pos : 0..MaxSize, kind : {"ConnectionReset", "TimedOut"}]
        \cup [dir : {"wr"}, pos : 0..MaxSize, kind : {"BrokenPipe", "WriteZero"}]

TwinInit ==
    /\ \E in \in BSeq(Sample, MaxLen) :
          /\ wire = [e \in End |-> IF e \in {"A", "C"} THEN in ELSE <<>>]
          /\ orig = [e \in End |-> IF e \in {"A", "C"}
                                   THEN [i \in 1..Len(in) |-> "env"] ELSE <<>>]
    /\ taken = [e \in End |-> 0]
    /\ shut \in {[e \in End |-> IF e \in {"B", "D"} THEN h ELSE {}] : h \in Halves}
    /\ st = [e \in End |-> Idle]
    /\ calls = [e \in End |-> 0]
    /\ caps = AllCaps
    /\ script = NoScript
    /\ \E f \in Fates : fate = [NoFate EXCEPT !["A"] = f, !["C"] = f]
    /\ prog \in {[NoProg EXCEPT !["A"] = <<{"pick_up_and_hail"}>>,
                                !["C"] = <<{"pick_up"}, {"hail"}>>],
                 [NoProg EXCEPT !["A"] = <<{"throw_and_wait"}>>,
                                !["C"] = <<{"throw"}, {"wait"}>>]}
    /\ \E v \in Values : args = [NoArgs EXCEPT !["A"] = {v}, !["C"] = {v}]

\* The next read of end e is the one its transport fails.
ReadDoomed(e) == fate[e].dir = "rd" /\ taken[e] = fate[e].pos

\* The next write of end e is the one its transport fails.
WriteDoomed(e) == fate[e].dir = "wr" /\ Len(wire[Peer(e)]) = fate[e].pos

\* A read of k bytes ends before the read that fails.
ReadClear(e, k) == fate[e].dir = "rd" => taken[e] + k <= fate[e].pos

\* A write of k bytes ends before the write that fails.
WriteClear(e, k) == fate[e].dir = "wr" => Len(wire[Peer(e)]) + k <= fate[e].pos

\* The steps of end e on a transport whose failure is fixed by fate[e].
FatedRun(e) ==
    \/ \E op \in Ops, v \in Values : Call(e, op, v)
    \/ \E k \in 1..(MaxSize + 1) : ReadClear(e, k) /\ ReadStep(e, k)
    \/ ~ReadDoomed(e) /\ ReadEof(e)
    \/ ReadDoomed(e) /\ ReadFault(e, fate[e].kind)
    \/ ReadInterrupted(e)
    \/ ReadDone(e)
    \/ \E k \in 1..(MaxSize + 1) : WriteClear(e, k) /\ WriteStep(e, k)
    \/ WriteDoomed(e) /\ fate[e].kind = "WriteZero" /\ WriteFault(e)
    \/ WriteDoomed(e) /\ fate[e].kind # "WriteZero" /\ WriteError(e, fate[e].kind)
    \/ WriteInterrupted(e)
    \/ WriteDone(e)

\* The steps of end e on a pipe whose peer may shut halves or be dropped
\* and whose reads and writes may fail with an error of any kind (WouldBlock
\* when a timeout the caller has set expires, ConnectionReset when the peer
\* is dropped with bytes unread).
RunShut(e) ==
    \/ \E op \in Ops, v \in Values : Call(e, op, v)
    \/ \E k \in 1..(MaxSize + 1) : ReadStep(e, k)
    \/ ReadEof(e)
    \/ \E kind \in Errors : ReadFault(e, kind)
    \/ ReadInterrupted(e)
    \/ ReadDone(e)
    \/ \E k \in 1..(MaxSize + 1) : WriteStep(e, k)
    \/ WriteBroken(e)
    \/ WriteFault(e)
    \/ \E kind \in Errors : WriteError(e, kind)
    \/ WriteInterrupted(e)
    \/ WriteDone(e)

\* The caller of end e has nothing more to call.
Over(e) == Finished(e) /\ (calls[e] = Len(prog[e]) \/ st[e].res \in Errors)

\* The two pipes are independent: C runs once A is over.
TwinNext == FatedRun("A") \/ (Over("A") /\ FatedRun("C"))

TwinSpec == TwinInit /\ [][TwinNext]_vars

(***************************************************************************)
(* Duplex: a pipe that starts empty; A calls throw_and_wait once while its *)
(* peer B makes any MaxRounds calls of the six operations and then may     *)
(* drop its stream.  The buffers of A are of a zero-sized, a one-byte and  *)
(* a two-byte type, those of B of a zero-sized and a one-byte type.        *)
(***************************************************************************)
Small == {<<>>, <<0>>, <<HailByte, 0>>}
PeerSmall == {<<>>, <<0>>}

DuplexInit ==
    /\ wire = Empty
    /\ orig = Empty
    /\ taken = [e \in End |-> 0]
    /\ shut = [e \in End |-> {}]
    /\ st = [e \in End |-> Idle]
    /\ calls = [e \in End |-> 0]
    /\ caps = AllCaps
    /\ script = NoScript
    /\ fate = NoFate
    /\ prog = [NoProg EXCEPT !["A"] = <<{"throw_and_wait"}>>,
                             !["B"] = [i \in 1..MaxRounds |-> Ops]]
    /\ args = [NoArgs EXCEPT !["A"] = Small, !["B"] = PeerSmall]

DuplexNext ==
    \/ RunShut("A")
    \/ RunShut("B")
    \/ Shutdown("B", {"rd", "wr"})

DuplexSpec == DuplexInit /\ [][DuplexNext]_vars

(***************************************************************************)
(* Properties of one call (Spec)                                           *)
(***************************************************************************)
\* C2: a successful pick_up into a buffer of size N has consumed exactly N
\* bytes, the buffer holds them in order, and the buffer followed by what is
\* left in the stream is the stream as it was when the call began.
C2_ExactSizeConsumption ==
    \A e \in End :
        (Returned(e, "pick_up") /\ st[e].res = "Ok") =>
            /\ Consumed(e) = size_of(st[e].buf0)
            /\ size_of(st[e].buf) = size_of(st[e].buf0)
            /\ st[e].buf \o Left(e) = st[e].in0

\* A pick_up of two bytes over a buffer that held other bytes, which left
\* the third byte of the stream behind.
C2_Witness ==
    /\ Returned("A", "pick_up") /\ st["A"].res = "Ok"
    /\ size_of(st["A"].buf0) = 2
    /\ st["A"].buf = <<0, HailByte>>
    /\ st["A"].buf0 = <<HailByte, 0>>
    /\ Incoming("A") = <<HailByte>>

\* C3: a pick_up that returned after the stream delivered fewer than
\* size_of::<T>() bytes returned an I/O error, never success.
C3_ShortReadFails ==
    \A e \in End :
        (Returned(e, "pick_up") /\ Consumed(e) < size_of(st[e].buf0)) =>
            st[e].res \in Errors

\* The stream ended after one byte of a two-byte value.
C3_Witness ==
    /\ Returned("A", "pick_up")
    /\ size_of(st["A"].buf0) = 2
    /\ Consumed("A") = 1
    /\ "wr" \in shut["B"]
    /\ st["A"].res = "UnexpectedEof"

\* C4 as stated: for every buffer size, a pick_up on a stream with nothing
\* to deliver whose peer has shut its write half, during which zero bytes
\* were read, returned an I/O error.
C4_ZeroBytesFail_Original ==
    \A e \in End :
        (/\ Returned(e, "pick_up")
         /\ st[e].in0 = <<>>
         /\ "wr" \in shut[Peer(e)]
         /\ Consumed(e) = 0) => st[e].res \in Errors

\* C4 as amended: a pick_up into a buffer of at least one byte during which
\* zero bytes were read returned an I/O error; into a buffer of size zero it
\* returns success without reading, also from a stream at its end.
C4_ZeroBytesFail ==
    \A e \in End :
        (Returned(e, "pick_up") /\ Consumed(e) = 0) =>
            IF size_of(st[e].buf0) >= 1
            THEN st[e].res \in Errors
            ELSE st[e].res = "Ok" /\ st[e].buf = st[e].buf0

\* Nothing to deliver, the peer gone, a one-byte buffer: UnexpectedEof.
C4_Witness ==
    /\ Returned("A", "pick_up")
    /\ size_of(st["A"].buf0) = 1
    /\ st["A"].in0 = <<>>
    /\ "wr" \in shut["B"]
    /\ Consumed("A") = 0
    /\ st["A"].res = "UnexpectedEof"

\* C6: a successful hail has appended exactly the byte 0x0A to what had been
\* written on the stream before, and has consumed nothing.
C6_HailByte ==
    \A e \in End :
        (Returned(e, "hail") /\ st[e].res = "Ok") =>
            /\ wire[Peer(e)] = st[e].out0 \o <<HailByte>>
            /\ Written(e) = <<10>>
            /\ Consumed(e) = 0

\* A hail on a stream that already carried a byte.
C6_Witness ==
    /\ Returned("A", "hail") /\ st["A"].res = "Ok"
    /\ st["A"].out0 = <<0>>
    /\ wire["B"] = <<0, 10>>

\* C7: when the first step of a composite fails, the second step does no
\* I/O (no byte written by pick_up_and_hail, no byte read for the wait of
\* throw_and_wait) and the composite returns the first step's error.
C7_ShortCircuit ==
    \A e \in End :
        /\ (st[e].op = "pick_up_and_hail" /\ st[e].first \in Errors) =>
              /\ Written(e) = <<>>
              /\ st[e].pc = "done"
              /\ st[e].res = st[e].first
        /\ (st[e].op = "throw_and_wait" /\ st[e].first \in Errors) =>
              /\ Consumed(e) = 0
              /\ st[e].pc = "done"
              /\ st[e].res = st[e].first

\* A pick_up_and_hail whose pick_up met the end of the stream after one of
\* two bytes.
C7_Witness ==
    /\ Returned("A", "pick_up_and_hail")
    /\ st["A"].first = "UnexpectedEof"
    /\ Consumed("A") = 1
    /\ size_of(st["A"].buf0) = 2

(***************************************************************************)
(* wait (WaitSpec)                                                         *)
(***************************************************************************)
\* C5: whatever the value of the next byte, a wait that returned success has
\* consumed exactly that byte and left what followed it (so that a wait on
\* a stream that delivers no byte never returns success), and one that
\* failed has consumed nothing and returned an I/O error; either way the
\* caller is left with no byte of the stream and wait has written nothing.
C5_WaitContentBlind ==
    \A e \in End :
        Returned(e, "wait") =>
            /\ st[e].tmp = <<>>
            /\ st[e].buf = st[e].buf0
            /\ Written(e) = <<>>
            /\ IF st[e].res = "Ok"
               THEN /\ Consumed(e) = 1
                    /\ st[e].in0 # <<>>
                    /\ Left(e) = Tail(st[e].in0)
               ELSE /\ Consumed(e) = 0
                    /\ Left(e) = st[e].in0
                    /\ st[e].res \in Errors

\* A wait satisfied by the byte 0xFF, which hail never sends, with the byte
\* after it still in the stream.
C5_Witness ==
    /\ Returned("A", "wait") /\ st["A"].res = "Ok"
    /\ wire["A"] = <<ByteMax, 0>>
    /\ Incoming("A") = <<0>>

(***************************************************************************)
(* One throw and one pick_up, one rendezvous (PairSpec)                    *)
(***************************************************************************)
Transfer == prog["A"] = <<{"throw"}>> /\ prog["B"] = <<{"pick_up"}>>
Rendezvous ==
    prog["A"] = <<{"throw_and_wait"}>> /\ prog["B"] = <<{"pick_up_and_hail"}>>

\* C1: when A has thrown v and B picks up into a buffer of the same size,
\* the pick_up returns success and the buffer then holds the bytes of v,
\* whatever it held before.
C1_RoundTrip ==
    (Transfer /\ Returned("B", "pick_up")) =>
        /\ st["B"].res = "Ok"
        /\ args["A"] = {st["B"].buf}
        /\ st["A"].buf = st["A"].buf0

\* A two-byte value picked up over a buffer that held two other bytes.
C1_Witness ==
    /\ Transfer
    /\ Returned("A", "throw") /\ st["A"].res = "Ok" /\ st["A"].buf0 = <<0, HailByte>>
    /\ Returned("B", "pick_up") /\ st["B"].res = "Ok"
    /\ st["B"].buf0 = <<HailByte, 0>>
    /\ st["B"].buf = <<0, HailByte>>

\* Both calls of the rendezvous have returned success, x = v, the payload
\* has crossed from A to B, one handshake byte from B to A, nothing is left.
RendezvousDone ==
    /\ Returned("A", "throw_and_wait") /\ st["A"].res = "Ok"
    /\ Returned("B", "pick_up_and_hail") /\ st["B"].res = "Ok"
    /\ args["A"] = {st["B"].buf}
    /\ wire["B"] = st["A"].buf0
    /\ \A i \in 1..Len(orig["B"]) : orig["B"][i] = "throw"
    /\ wire["A"] = <<HailByte>>
    /\ orig["A"] = <<"hail">>
    /\ Incoming("A") = <<>>
    /\ Incoming("B") = <<>>

\* C9: under every interleaving of throw_and_wait(v) at A and
\* pick_up_and_hail(x) at B on a reliable pipe that starts empty, both calls
\* eventually return success with x = v, exactly size_of(v) payload bytes
\* crossed from A to B, exactly one handshake byte from B to A, and both
\* directions are empty; and it stays so.
C9_SingleRendezvous == Rendezvous => <>[]RendezvousDone

\* The rendezvous of a two-byte value has completed.
C9_Witness ==
    /\ Rendezvous
    /\ RendezvousDone
    /\ st["A"].buf0 = <<0, HailByte>>
    /\ st["B"].buf0 = <<HailByte, HailByte>>

(***************************************************************************)
(* A composite against its two primitives called in turn (TwinSpec)        *)
(***************************************************************************)
\* C8: a composite call (A) ends with the same result, the same buffer, the
\* same bytes consumed and the same bytes written as the call of its first
\* primitive followed, only if that succeeded, by the call of its second (C,
\* on a pipe in the same state); and at every moment pick_up_and_hail has
\* written nothing before it has read all size_of::<T>() payload bytes, and
\* throw_and_wait has read nothing before it has written them all.
C8_CompositeEquivalence ==
    /\ (Over("A") /\ Over("C") /\ calls["A"] = 1) =>
          /\ st["A"].res = st["C"].res
          /\ st["A"].buf = st["C"].buf
          /\ taken["A"] = taken["C"]
          /\ Incoming("A") = Incoming("C")
          /\ wire["B"] = wire["D"]
          /\ orig["B"] = orig["D"]
    /\ (st["A"].op = "pick_up_and_hail" /\ Written("A") # <<>>) =>
          /\ Consumed("A") = size_of(st["A"].buf0)
          /\ st["A"].buf \o Incoming("A") = st["A"].in0
    /\ (st["A"].op = "throw_and_wait" /\ Consumed("A") > 0) =>
          Written("A") = st["A"].buf0

\* Both twins are over after a throw that succeeded and a wait that failed.
C8_Witness ==
    /\ Over("A") /\ Over("C")
    /\ st["A"].op = "throw_and_wait" /\ st["C"].op = "wait"
    /\ size_of(st["A"].buf0) = 2
    /\ st["A"].first = "Ok"
    /\ st["A"].res = "UnexpectedEof"
    /\ wire["D"] = st["A"].buf0

(***************************************************************************)
(* throw_and_wait against any peer (DuplexSpec)                            *)
(***************************************************************************)
\* C10 as stated: when throw_and_wait has returned success, the byte its
\* wait consumed was written by a hail of the peer.
C10_AckByHail_Original ==
    (Returned("A", "throw_and_wait") /\ st["A"].res = "Ok") =>
        /\ Consumed("A") = 1
        /\ orig["A"][taken["A"]] = "hail"

\* C10 as amended: when throw_and_wait has returned success, its wait has
\* consumed one byte that the peer wrote before that return, by a hail or
\* by a throw (alone or as a step of a composite); the peer has reached a
\* hail whenever it has thrown nothing.
C10_AckByPeerWrite ==
    (Returned("A", "throw_and_wait") /\ st["A"].res = "Ok") =>
        /\ Consumed("A") = 1
        /\ taken["A"] = 1
        /\ orig["A"][1] \in {"hail", "throw"}
        /\ calls["B"] >= 1
        /\ (\A i \in 1..Len(orig["A"]) : orig["A"][i] # "throw") =>
              (orig["A"][1] = "hail" /\ wire["A"][1] = HailByte)

\* throw_and_wait returned success on the hail of a peer that had picked the
\* payload up.
C10_Witness ==
    /\ Returned("A", "throw_and_wait") /\ st["A"].res = "Ok"
    /\ st["A"].buf0 = <<0>>
    /\ orig["A"] = <<"hail">>
    /\ st["B"].op = "pick_up_and_hail"
    /\ st["B"].buf = <<0>>

(***************************************************************************)
(* ClosedSpec: A throws once on a stream whose peer may shut its halves    *)
(* before or during the call.  The transport accepts or fails each write;  *)
(* A's thread keeps running and is not interrupted for ever.               *)
(***************************************************************************)
ClosedInit ==
    /\ \E out \in BSeq(Sample, MaxPre) :
          /\ wire = [e \in End |-> IF e = "B" THEN out ELSE <<>>]
          /\ orig = [e \in End |-> IF e = "B" THEN [i \in 1..Len(out) |-> "env"] ELSE <<>>]
    /\ taken = [e \in End |-> 0]
    /\ shut \in {[e \in End |-> IF e = "B" THEN h ELSE {}] : h \in Halves}
    /\ st = [e \in End |-> Idle]
    /\ calls = [e \in End |-> 0]
    /\ caps = AllCaps
    /\ script = NoScript
    /\ fate = NoFate
    /\ prog = [NoProg EXCEPT !["A"] = <<{"throw"}>>]
    /\ args = [NoArgs EXCEPT !["A"] = Values]

\* The steps of a throw of A.
ThrowRun ==
    \/ \E v \in Values : Call("A", "throw", v)
    \/ \E k \in 1..(MaxSize + 1) : WriteStep("A", k)
    \/ WriteBroken("A")
    \/ WriteFault("A")
    \/ \E kind \in Errors : WriteError("A", kind)
    \/ WriteInterrupted("A")
    \/ WriteDone("A")

ClosedNext == ThrowRun \/ \E how \in Halves : Shutdown("B", how)

ClosedSpec == ClosedInit /\ [][ClosedNext]_vars /\ WF_vars(ThrowRun)

\* A throw of end e that began when the peer had already shut its read half.
ThrowOnClosed(e) == st[e].op = "throw" /\ "rd" \in st[e].shut0

\* C11 as stated: for every buffer type, a throw called on a stream that was
\* already closed has not returned success.
C11_ClosedPeer_Original ==
    \A e \in End : (ThrowOnClosed(e) /\ st[e].pc = "done") => st[e].res \in Errors

\* C11 as amended: a throw called on a stream that was already closed
\* always returns.  It returns an I/O error exactly when one of its writes
\* failed, with the bytes accepted before that left in the stream, and
\* success exactly when the transport accepted every byte of the buffer: at
\* once for a zero-sized buffer, for which no write is attempted, and for a
\* larger one when the transport takes bytes for a peer that is gone.
C11_ClosedPeer ==
    /\ [](ThrowOnClosed("A") => <>(st["A"].pc = "done"))
    /\ [](\A e \in End :
            (ThrowOnClosed(e) /\ st[e].pc = "done") =>
                /\ st[e].res \in Errors \cup {"Ok"}
                /\ st[e].res = "Ok" <=> Written(e) = st[e].buf0
                /\ st[e].res \in Errors => Len(Written(e)) < size_of(st[e].buf0)
                /\ Written(e) = SubSeq(st[e].buf0, 1, Len(Written(e)))
                /\ size_of(st[e].buf0) = 0 => st[e].res = "Ok")

\* A throw of two bytes on a closed stream has returned BrokenPipe.
C11_Witness ==
    /\ ThrowOnClosed("A")
    /\ st["A"].pc = "done"
    /\ size_of(st["A"].buf0) = 2
    /\ st["A"].res = "BrokenPipe"
    /\ wire["B"] = st["A"].out0

(***************************************************************************)
(* CapSpec: as Spec, for a gutter type that implements Read, Write or both *)
(***************************************************************************)
CapInit ==
    /\ \E in \in BSeq(Sample, MaxLen), out \in {<<>>} :
          /\ wire = [e \in End |-> CASE e = "A" -> in [] e = "B" -> out [] OTHER -> <<>>]
          /\ orig = [e \in End |-> CASE e = "A" -> [i \in 1..Len(in) |-> "env"]
                                     [] e = "B" -> [i \in 1..Len(out) |-> "env"]
                                     [] OTHER -> <<>>]
    /\ taken = [e \in End |-> 0]
    /\ shut \in {[e \in End |-> IF e = "B" THEN h ELSE {}] : h \in Halves}
    /\ st = [e \in End |-> Idle]
    /\ calls = [e \in End |-> 0]
    /\ caps \in {[AllCaps EXCEPT !["A"] = c] : c \in (SUBSET {"Read", "Write"}) \ {{}}}
    /\ script = NoScript
    /\ fate = NoFate
    /\ prog = [NoProg EXCEPT !["A"] = <<Ops>>]
    /\ args = [NoArgs EXCEPT !["A"] = Values]

CapSpec == CapInit /\ [][Next]_vars

\* The frame of the four primitives: pick_up and wait write nothing, throw
\* and hail consume nothing, throw leaves the caller's buffer as it was.
Frame(e) ==
    /\ st[e].op \in {"pick_up", "wait"} => Written(e) = <<>>
    /\ st[e].op \in {"throw", "hail"} => (Consumed(e) = 0 /\ Left(e) = st[e].in0)
    /\ st[e].op = "throw" => st[e].buf = st[e].buf0

\* The caller of A is about to make its call.
AboutToCall == st["A"].pc = "ready" /\ calls["A"] < Len(prog["A"])

\* C12 as stated: the frame holds, and pick_up can be called on a gutter
\* that has the read capability and throw on one that has the write
\* capability.
C12_CapabilityFrame_Original ==
    /\ \A e \in End : Frame(e)
    /\ AboutToCall =>
          /\ "Read" \in caps["A"] => ENABLED Call("A", "pick_up", <<>>)
          /\ "Write" \in caps["A"] => ENABLED Call("A", "throw", <<>>)

\* C12 as amended: the frame holds, but pick_up and throw are only callable
\* on a gutter whose type implements both Read and Write; hail is callable
\* on a gutter that only implements Write and wait on one that only
\* implements Read.
C12_CapabilityFrame ==
    /\ \A e \in End :
          /\ Frame(e)
          /\ st[e].op \in Ops => Bound(st[e].op) \subseteq caps[e]
          /\ st[e].op \in {"pick_up", "throw"} => caps[e] = {"Read", "Write"}
    /\ AboutToCall =>
          /\ ENABLED Call("A", "pick_up", <<>>) <=> caps["A"] = {"Read", "Write"}
          /\ ENABLED Call("A", "throw", <<>>) <=> caps["A"] = {"Read", "Write"}
          /\ ENABLED Call("A", "wait", <<>>) <=> "Read" \in caps["A"]
          /\ ENABLED Call("A", "hail", <<>>) <=> "Write" \in caps["A"]

\* A throw of two bytes has returned success on a gutter that had bytes to
\* read: it wrote its buffer and read none of them.
C12_Witness ==
    /\ Returned("A", "throw") /\ st["A"].res = "Ok"
    /\ st["A"].buf0 = <<0, HailByte>>
    /\ Written("A") = <<0, HailByte>>
    /\ Incoming("A") = <<HailByte, 0>>

(***************************************************************************)
(* throw under partial writes (Spec)                                       *)
(***************************************************************************)
\* C13: however the underlying writes split the buffer, at every moment of
\* a throw the stream holds what it held before followed by a prefix of the
\* buffer; a throw that returned success has appended exactly the buffer's
\* size_of::<T>() bytes, in order, once; one that returned an error has
\* left the bytes accepted before the failure in the stream, and returns the
\* error alone.
C13_CompleteWrite ==
    \A e \in End :
        st[e].op = "throw" =>
            /\ wire[Peer(e)] = st[e].out0 \o Written(e)
            /\ Len(Written(e)) <= size_of(st[e].buf0)
            /\ Written(e) = SubSeq(st[e].buf0, 1, Len(Written(e)))
            /\ st[e].pc = "done" =>
                  IF st[e].res = "Ok"
                  THEN Written(e) = st[e].buf0
                  ELSE st[e].res \in Errors /\ Len(Written(e)) < size_of(st[e].buf0)

\* A throw of two bytes whose second write failed: the first byte stays in
\* the stream, after the byte that was there.
C13_Witness ==
    /\ Returned("A", "throw")
    /\ st["A"].res = "ConnectionReset"
    /\ st["A"].buf0 = <<HailByte, 0>>
    /\ st["A"].out0 = <<0>>
    /\ wire["B"] = <<0, HailByte>>

(***************************************************************************)
(* FifoSpec: on a reliable pipe that starts empty, A throws the logs of    *)
(* its script one after the other while B picks up into buffers of the     *)
(* matching sizes.                                                         *)
(***************************************************************************)
Logs == Small \cup {<<HailByte>>}

\* A buffer of the size of v that holds none of the bytes sent.
Fill(v) == [i \in 1..size_of(v) |-> ByteMax]

\* The bytes of the values of a sequence, one after the other.
RECURSIVE Concat(_)
Concat(vs) == IF vs = <<>> THEN <<>> ELSE Head(vs) \o Concat(Tail(vs))

FifoInit ==
    /\ wire = Empty
    /\ orig = Empty
    /\ taken = [e \in End |-> 0]
    /\ shut = [e \in End |-> {}]
    /\ st = [e \in End |-> Idle]
    /\ calls = [e \in End |-> 0]
    /\ caps = AllCaps
    /\ fate = NoFate
    /\ \E vs \in BSeq(Logs, MaxRounds) :
          /\ script = [NoScript EXCEPT !["A"] = vs,
                                       !["B"] = [i \in 1..Len(vs) |-> Fill(vs[i])]]
          /\ prog = [NoProg EXCEPT !["A"] = [i \in 1..Len(vs) |-> {"throw"}],
                                   !["B"] = [i \in 1..Len(vs) |-> {"pick_up"}]]
          /\ args = [NoArgs EXCEPT !["A"] = {vs[i] : i \in 1..Len(vs)},
                                   !["B"] = {Fill(vs[i]) : i \in 1..Len(vs)}]

\* The caller of end e makes the next call of its program with the next
\* buffer of its script.
ScriptedCall(e) ==
    /\ calls[e] < Len(script[e])
    /\ \E op \in Ops : Call(e, op, script[e][calls[e] + 1])

\* The steps of end e, which follows its script, on a reliable pipe.
ScriptedRun(e) ==
    \/ ScriptedCall(e)
    \/ \E k \in 1..(MaxSize + 1) : ReadStep(e, k)
    \/ ReadInterrupted(e)
    \/ ReadDone(e)
    \/ \E k \in 1..(MaxSize + 1) : WriteStep(e, k)
    \/ WriteInterrupted(e)
    \/ WriteDone(e)

FifoNext == ScriptedRun("A") \/ ScriptedRun("B")

FifoSpec == FifoInit /\ [][FifoNext]_vars

\* C14: under every interleaving, the i-th pick_up that has returned
\* returned success with exactly the i-th value thrown; the wire carries
\* only bytes written by throw, which are a prefix of the concatenation of
\* the values' bytes, and all of it once every throw has returned.
C14_UnframedFifo ==
    /\ wire["B"] = SubSeq(Concat(script["A"]), 1, Len(wire["B"]))
    /\ \A i \in 1..Len(orig["B"]) : orig["B"][i] = "throw"
    /\ wire["A"] = <<>>
    /\ Over("A") => wire["B"] = Concat(script["A"])
    /\ (Returned("A", "throw") /\ calls["A"] >= 1) =>
          /\ st["A"].res = "Ok"
          /\ wire["B"] = Concat(SubSeq(script["A"], 1, calls["A"]))
    /\ (Returned("B", "pick_up") /\ calls["B"] >= 1) =>
          /\ st["B"].res = "Ok"
          /\ st["B"].buf = script["A"][calls["B"]]
          /\ taken["B"] = Len(Concat(SubSeq(script["A"], 1, calls["B"])))

\* The second pick_up has returned the second value, of another size than
\* the first.
C14_Witness ==
    /\ script["A"] = <<<<HailByte, 0>>, <<0>>>>
    /\ Returned("B", "pick_up")
    /\ calls["B"] = 2
    /\ st["B"].buf = <<0>>
    /\ wire["B"] = <<HailByte, 0, 0>>

(***************************************************************************)
(* A composite whose second step fails (Spec)                              *)
(***************************************************************************)
\* The first step of the composite of end e succeeded and the second failed.
SecondFailed(e, op) == Returned(e, op) /\ st[e].first = "Ok" /\ st[e].res # "Ok"

\* C15: when the pick_up of pick_up_and_hail succeeded and its hail failed,
\* the composite returned the error of the write, bare, although the payload
\* bytes are consumed and the buffer holds them; when the throw of
\* throw_and_wait succeeded and its wait failed, the composite returned the
\* error of the read, bare, although the payload is written, once.  A
\* composite returns success only when its second step has done its I/O.
C15_NoRollback ==
    \A e \in End :
        /\ SecondFailed(e, "pick_up_and_hail") =>
              /\ st[e].res \in Errors
              /\ Consumed(e) = size_of(st[e].buf0)
              /\ st[e].buf \o Left(e) = st[e].in0
              /\ Written(e) = <<>>
        /\ SecondFailed(e, "throw_and_wait") =>
              /\ st[e].res \in Errors
              /\ Written(e) = st[e].buf0
              /\ st[e].buf = st[e].buf0
              /\ Consumed(e) = 0
        /\ (Returned(e, "pick_up_and_hail") /\ st[e].res = "Ok") =>
              (st[e].first = "Ok" /\ Written(e) = <<HailByte>>)
        /\ (Returned(e, "throw_and_wait") /\ st[e].res = "Ok") =>
              (st[e].first = "Ok" /\ Consumed(e) = 1)

\* A pick_up_and_hail that returned the error of its hail after its pick_up
\* had replaced the two bytes of the buffer by the first two of the stream.
C15_Witness ==
    /\ SecondFailed("A", "pick_up_and_hail")
    /\ st["A"].res = "BrokenPipe"
    /\ st["A"].buf0 = <<0, 0>>
    /\ st["A"].buf = <<HailByte, HailByte>>
    /\ st["A"].in0 = <<HailByte, HailByte, 0>>
    /\ Incoming("A") = <<0>>

(***************************************************************************)
(* LockSpec: on a reliable pipe that starts empty, A makes only            *)
(* throw_and_wait calls and B only pick_up_and_hail calls, for one type T. *)
(***************************************************************************)
\* The values of the types of size n.
ValuesOf(n) == [1..n -> Sample]

LockInit ==
    /\ wire = Empty
    /\ orig = Empty
    /\ taken = [e \in End |-> 0]
    /\ shut = [e \in End |-> {}]
    /\ st = [e \in End |-> Idle]
    /\ calls = [e \in End |-> 0]
    /\ caps = AllCaps
    /\ fate = NoFate
    /\ \E n \in 0..MaxSize, ra \in 1..MaxRounds, rb \in 1..MaxRounds :
          \E vs \in [1..ra -> ValuesOf(n)] :
              /\ script = [NoScript EXCEPT !["A"] = vs,
                                           !["B"] = [i \in 1..rb |-> [j \in 1..n |-> ByteMax]]]
              /\ prog = [NoProg EXCEPT !["A"] = [i \in 1..ra |-> {"throw_and_wait"}],
                                       !["B"] = [i \in 1..rb |-> {"pick_up_and_hail"}]]
              /\ args = [NoArgs EXCEPT !["A"] = ValuesOf(n),
                                       !["B"] = {[j \in 1..n |-> ByteMax]}]

LockNext == ScriptedRun("A") \/ ScriptedRun("B")

LockSpec == LockInit /\ [][LockNext]_vars

\* size_of::<T>() of the type the two ends exchange.
LockSize == size_of(script["A"][1])

\* The rounds whose pick_up the receiver has finished.
PickedUp == IF st["B"].pc = "pick_up" THEN calls["B"] - 1 ELSE calls["B"]

\* An end still has a call to make or to finish.
Busy(e) == ~Finished(e) \/ calls[e] < Len(prog[e])

\* What holds of the rounds whatever the size of T; a state where the only
\* steps left are interrupted reads that change nothing is a deadlock.
LockStep ==
    /\ Len(Incoming("B")) <= LockSize
    /\ calls["A"] <= PickedUp + 1
    /\ (PickedUp >= 1 /\ PickedUp = calls["B"] /\ PickedUp <= Len(script["A"])) =>
          st["B"].buf = script["A"][PickedUp]
    /\ \A e \in {"A", "B"} : st[e].res \in {"none", "Ok"}
    /\ (Busy("A") /\ Busy("B")) => ENABLED <<LockNext>>_vars

\* C16 as stated: at most size_of::<T>() payload bytes are in flight
\* forward and at most one handshake byte backward, the sender does not
\* start round k+1 before the pick_up of round k has finished, round k
\* picks up the value thrown in round k, and no state is a deadlock while
\* both ends have calls to make.
C16_LockStep_Original ==
    /\ LockStep
    /\ Len(Incoming("A")) <= 1

\* C16 as amended: the same, but at most one handshake byte is in flight
\* backward only for a type of at least one byte; for a zero-sized type
\* the receiver does not wait for the sender, and as many handshake bytes
\* may be in flight as the receiver has made calls.
C16_LockStep ==
    /\ LockStep
    /\ LockSize >= 1 => (Len(Incoming("A")) <= 1 /\ calls["B"] <= calls["A"] + 1)
    /\ LockSize = 0 => Len(Incoming("A")) <= calls["B"]

\* Two rounds of a two-byte type are over: both ends returned success and
\* the receiver holds the second value, which is not the first.
C16_Witness ==
    /\ LockSize = 2
    /\ calls["A"] = 2 /\ Returned("A", "throw_and_wait") /\ st["A"].res = "Ok"
    /\ calls["B"] = 2 /\ Returned("B", "pick_up_and_hail") /\ st["B"].res = "Ok"
    /\ script["A"] = <<<<0, HailByte>>, <<HailByte, HailByte>>>>
    /\ st["B"].buf = <<HailByte, HailByte>>
    /\ Incoming("A") = <<>> /\ Incoming("B") = <<>>
====
